---- MODULE Spec2Model ----
(***************************************************************************)
(* A model of static/app.js, the dashboard client of the ETF filings       *)
(* monitor: the SEC link resolver (pure string functions, modelled on      *)
(* character strings) and the mode-aware refresh loop with its cache.      *)
(***************************************************************************)
EXTENDS Integers, Sequences, FiniteSets, TLC

VARIABLES
  alert,        \* link resolver: the record handed to resolveLinks
  checked,      \* link resolver: the three URL functions applied to one field
  links,        \* link resolver: the result of resolveLinks
  mode,         \* let mode: "api" or "static"
  cachedStatus, \* let cachedStatus: a JSON value
  allAlerts,    \* let allAlerts: a sequence of records
  statusLine,   \* statusEl.textContent
  metrics,      \* the four metric elements' textContent
  formFilter,   \* formFilterEl.value
  query,        \* searchInputEl.value
  visibleCount, \* visibleCountEl.textContent
  rendered,     \* the cards of alertsEl, in order
  pc,           \* where init() stands: "probing", "firstRefresh", "running"
  probe,        \* the GET /api/health request: "pending", "ok", "failed"
  refreshes,    \* the invocations of refreshAll, in the order they started
  controls,     \* the invocations of startListener and stopListener
  issued,       \* how many requests were sent to each URL
  writer        \* which refresh wrote each cache field last (0: none)

linkVars == <<alert, checked, links>>

dashVars == <<mode, cachedStatus, allAlerts, statusLine, metrics, formFilter, query,
              visibleCount, rendered, pc, probe, refreshes, controls, issued, writer>>

vars == <<linkVars, dashVars>>

(***************************************************************************)
(* JavaScript string primitives                                            *)
(***************************************************************************)

\* const name = value; ...: the value is computed once and the rest reads it
Const(value, rest(_)) == CHOOSE result \in {rest(name) : name \in {value}} : TRUE

Ch(s, i) == SubSeq(s, i, i)

From(s, i) == SubSeq(s, i, Len(s))

\* String.prototype.indexOf(t, from): 1-based here, 0 when t does not occur
IndexOf(s, t, from) ==
  LET I == {i \in from..(Len(s) - Len(t) + 1) : SubSeq(s, i, i + Len(t) - 1) = t}
  IN IF I = {} THEN 0 ELSE CHOOSE i \in I : \A j \in I : i <= j

LastIndexOf(s, t) ==
  LET I == {i \in 1..(Len(s) - Len(t) + 1) : SubSeq(s, i, i + Len(t) - 1) = t}
  IN IF I = {} THEN 0 ELSE CHOOSE i \in I : \A j \in I : i >= j

includes(s, t) == IndexOf(s, t, 1) # 0

startsWith(s, t) == Len(s) >= Len(t) /\ SubSeq(s, 1, Len(t)) = t

endsWith(s, t) == Len(s) >= Len(t) /\ SubSeq(s, Len(s) - Len(t) + 1, Len(s)) = t

UpperChars == "ABCDEFGHIJKLMNOPQRSTUVWXYZ"
LowerChars == "abcdefghijklmnopqrstuvwxyz"
DigitChars == "0123456789"

LowerOf == [c \in {Ch(UpperChars, i) : i \in 1..26} |->
              Ch(LowerChars, IndexOf(UpperChars, c, 1))]

UpperOf == [c \in {Ch(LowerChars, i) : i \in 1..26} |->
              Ch(UpperChars, IndexOf(LowerChars, c, 1))]

Digits == {Ch(DigitChars, i) : i \in 1..10}

LowerCh(c) == IF c \in DOMAIN LowerOf THEN LowerOf[c] ELSE c

UpperCh(c) == IF c \in DOMAIN UpperOf THEN UpperOf[c] ELSE c

RECURSIVE LowerFrom(_, _)
LowerFrom(s, i) == IF i > Len(s) THEN "" ELSE LowerCh(Ch(s, i)) \o LowerFrom(s, i + 1)

toLowerCase(s) == LowerFrom(s, 1)

RECURSIVE UpperFrom(_, _)
UpperFrom(s, i) == IF i > Len(s) THEN "" ELSE UpperCh(Ch(s, i)) \o UpperFrom(s, i + 1)

toUpperCase(s) == UpperFrom(s, 1)

IsDigit(c) == c \in Digits

IsAlpha(c) == c \in DOMAIN LowerOf \/ c \in DOMAIN UpperOf

\* the least and the greatest position of s that holds none of the characters cs
FirstNot(s, cs) ==
  LET I == {i \in 1..Len(s) : Ch(s, i) \notin cs}
  IN IF I = {} THEN Len(s) + 1 ELSE CHOOSE i \in I : \A j \in I : i <= j

LastNot(s, cs) ==
  LET I == {i \in 1..Len(s) : Ch(s, i) \notin cs}
  IN IF I = {} THEN 0 ELSE CHOOSE i \in I : \A j \in I : i >= j

\* String.prototype.trim (the blank is the only white space of the inputs)
trim(s) == SubSeq(s, FirstNot(s, {" "}), LastNot(s, {" "}))

\* replace(/\D+/g, ""): the digits of s, in order
RECURSIVE DigitsFrom(_, _)
DigitsFrom(s, i) ==
  IF i > Len(s) THEN ""
  ELSE (IF IsDigit(Ch(s, i)) THEN Ch(s, i) ELSE "") \o DigitsFrom(s, i + 1)

StripNonDigits(s) == DigitsFrom(s, 1)

\* String(Number.parseInt(digits, 10)) of a non-empty digit string: the
\* leading zeros go, a string of zeros gives "0"
DropLeadingZeros(s) == IF FirstNot(s, {"0"}) > Len(s) THEN "0" ELSE From(s, FirstNot(s, {"0"}))

\* lowerPath.split("/").filter(Boolean).pop() || "": the last non-empty segment
LastSegment(p) ==
  LET q == SubSeq(p, 1, LastNot(p, {"/"}))
  IN From(q, LastIndexOf(q, "/") + 1)

(***************************************************************************)
(* new URL(value): the WHATWG parser on absolute URLs without dot          *)
(* segments, percent escapes or non-ASCII hosts.  A failure is the         *)
(* TypeError the callers catch.                                            *)
(***************************************************************************)

SpecialSchemes == {"http", "https", "ftp", "ws", "wss"}

DefaultPort(scheme) ==
  CASE scheme = "http" -> "80" [] scheme = "https" -> "443" [] scheme = "ftp" -> "21"
    [] scheme = "ws" -> "80" [] scheme = "wss" -> "443" [] OTHER -> ""

ParseFailure ==
  [ok |-> FALSE, protocol |-> "", hostname |-> "", pathname |-> "", search |-> "", href |-> ""]

IsScheme(s) ==
  /\ s # ""
  /\ IsAlpha(Ch(s, 1))
  /\ \A i \in 1..Len(s) : IsAlpha(Ch(s, i)) \/ IsDigit(Ch(s, i)) \/ Ch(s, i) \in {"+", "-", "."}

SkipSlashes(s) == From(s, FirstNot(s, {"/", "\\"}))

\* the first position of one of the characters of cs in s, Len(s) + 1 if none
FirstOf(s, cs) ==
  LET I == {i \in 1..Len(s) : Ch(s, i) \in cs}
  IN IF I = {} THEN Len(s) + 1 ELSE CHOOSE i \in I : \A j \in I : i <= j

ForbiddenHostChars == {" ", "<", ">", "[", "]", "^", "|", "%", "\\"}

ParseSpecial(scheme, rest) ==
  Const(SkipSlashes(rest), LAMBDA r :
  Const(FirstOf(r, {"/", "?", "#", "\\"}), LAMBDA authEnd :
  Const(SubSeq(r, 1, authEnd - 1), LAMBDA authority :
  Const(From(r, authEnd), LAMBDA after :
  Const(LastIndexOf(authority, "@"), LAMBDA at :
  Const(IF at = 0 THEN "" ELSE SubSeq(authority, 1, at - 1), LAMBDA userinfo :
  Const(From(authority, at + 1), LAMBDA hostport :
  Const(IndexOf(hostport, ":", 1), LAMBDA colon :
  Const(IF colon = 0 THEN hostport ELSE SubSeq(hostport, 1, colon - 1), LAMBDA host :
  Const(IF colon = 0 THEN "" ELSE From(hostport, colon + 1), LAMBDA port :
  Const(FirstOf(after, {"?", "#"}), LAMBDA pathEnd :
  Const(IF pathEnd = 1 THEN "/" ELSE SubSeq(after, 1, pathEnd - 1), LAMBDA pathname :
  Const(From(after, pathEnd), LAMBDA tail :
  Const(IndexOf(tail, "#", 1), LAMBDA hashAt :
  Const(IF hashAt = 0 THEN tail ELSE SubSeq(tail, 1, hashAt - 1), LAMBDA rawQuery :
  Const(IF rawQuery = "?" THEN "" ELSE rawQuery, LAMBDA search :
  Const(IF hashAt = 0 \/ hashAt = Len(tail) THEN "" ELSE From(tail, hashAt), LAMBDA hash :
  Const(toLowerCase(host), LAMBDA hostname :
    IF \/ host = ""
       \/ \E i \in 1..Len(host) : Ch(host, i) \in ForbiddenHostChars
       \/ \E i \in 1..Len(port) : ~IsDigit(Ch(port, i))
    THEN ParseFailure
    ELSE [ok |-> TRUE, protocol |-> scheme \o ":", hostname |-> hostname,
          pathname |-> pathname, search |-> search,
          href |-> scheme \o "://"
                   \o (IF userinfo = "" THEN "" ELSE userinfo \o "@")
                   \o hostname
                   \o (IF port = "" \/ port = DefaultPort(scheme) THEN "" ELSE ":" \o port)
                   \o pathname \o search \o hash]))))))))))))))))))

\* a URL of another scheme ("javascript:...") parses with an empty host
ParseOpaque(scheme, rest) ==
  LET pathEnd == FirstOf(rest, {"?", "#"})
  IN [ok |-> TRUE, protocol |-> scheme \o ":", hostname |-> "",
      pathname |-> SubSeq(rest, 1, pathEnd - 1), search |-> "",
      href |-> scheme \o ":" \o rest]

URL(value) ==
  Const(IndexOf(value, ":", 1), LAMBDA colon :
    IF colon <= 1 \/ ~IsScheme(SubSeq(value, 1, colon - 1)) THEN ParseFailure
    ELSE Const(toLowerCase(SubSeq(value, 1, colon - 1)), LAMBDA scheme :
      IF scheme \in SpecialSchemes THEN ParseSpecial(scheme, From(value, colon + 1))
      ELSE ParseOpaque(scheme, From(value, colon + 1))))

\* parsed.searchParams.get(name) || "": the value of the first pair of that name
RECURSIVE QueryGet(_, _)
QueryGet(q, name) ==
  IF q = "" THEN ""
  ELSE LET amp  == IndexOf(q, "&", 1)
           pair == IF amp = 0 THEN q ELSE SubSeq(q, 1, amp - 1)
           more == IF amp = 0 THEN "" ELSE From(q, amp + 1)
           eq   == IndexOf(pair, "=", 1)
           key  == IF eq = 0 THEN pair ELSE SubSeq(pair, 1, eq - 1)
           val  == IF eq = 0 THEN "" ELSE From(pair, eq + 1)
       IN IF key = name THEN val ELSE QueryGet(more, name)

searchParamsGet(parsed, name) ==
  QueryGet(IF parsed.search = "" THEN "" ELSE From(parsed.search, 2), name)

(***************************************************************************)
(* The link resolver                                                       *)
(***************************************************************************)

\* /sec\.gov$/i.test(hostname)
SecGovHost(hostname) == endsWith(toLowerCase(hostname), "sec.gov")

normalizeCik(cik) ==
  LET digits == StripNonDigits(cik)
  IN IF digits = "" THEN "" ELSE DropLeadingZeros(digits)

normalizeAccessionDigits(accession) == StripNonDigits(accession)

buildEdgarIndexUrl(cik, accession) ==
  LET cleanCik       == normalizeCik(cik)
      rawAccession   == trim(accession)
      cleanAccession == normalizeAccessionDigits(accession)
  IN IF cleanCik = "" \/ cleanAccession = "" \/ rawAccession = "" THEN ""
     ELSE "https://www.sec.gov/Archives/edgar/data/" \o cleanCik \o "/"
          \o cleanAccession \o "/" \o rawAccession \o "-index.html"

IsIndexName(last) == last = "index.html" \/ last = "index.htm"

canonicalizeSecUrl(url, a) ==
  Const(trim(url), LAMBDA value :
    IF value = "" THEN ""
    ELSE Const(URL(value), LAMBDA parsed :
      IF ~parsed.ok THEN ""
      ELSE IF ~SecGovHost(parsed.hostname) THEN ""
      ELSE Const(toLowerCase(parsed.pathname), LAMBDA lowerPath :
        IF lowerPath = "/ix"
        THEN (IF startsWith(toLowerCase(searchParamsGet(parsed, "doc")), "/archives/")
              THEN parsed.href ELSE "")
        ELSE IF ~includes(lowerPath, "/archives/") THEN ""
        ELSE Const(LastSegment(lowerPath), LAMBDA last :
          IF IsIndexName(last) THEN buildEdgarIndexUrl(a.cik, a.accession_number)
          ELSE IF ~includes(last, ".") THEN buildEdgarIndexUrl(a.cik, a.accession_number)
          ELSE parsed.href))))

isUsableSecFilingUrl(url) ==
  Const(trim(url), LAMBDA value :
    IF value = "" THEN FALSE
    ELSE Const(URL(value), LAMBDA parsed :
      IF ~parsed.ok THEN FALSE
      ELSE IF ~SecGovHost(parsed.hostname) THEN FALSE
      ELSE IF parsed.pathname = "/" \/ parsed.pathname = "" THEN FALSE
      ELSE Const(toLowerCase(parsed.pathname), LAMBDA lowerPath :
        IF lowerPath = "/ix"
        THEN startsWith(toLowerCase(searchParamsGet(parsed, "doc")), "/archives/")
        ELSE IF ~includes(lowerPath, "/archives/") THEN FALSE
        ELSE Const(LastSegment(lowerPath), LAMBDA last :
          IF ~includes(last, ".") THEN FALSE
          ELSE IF IsIndexName(last) THEN FALSE
          ELSE TRUE))))

toIxViewerUrl(url) ==
  Const(trim(url), LAMBDA value :
    IF value = "" THEN ""
    ELSE Const(URL(value), LAMBDA parsed :
      IF ~parsed.ok THEN ""
      ELSE IF ~SecGovHost(parsed.hostname) THEN ""
      ELSE Const(toLowerCase(parsed.pathname), LAMBDA lowerPath :
        IF lowerPath = "/ix" THEN parsed.href
        ELSE IF ~includes(lowerPath, "/archives/") THEN ""
        ELSE Const(LastSegment(lowerPath), LAMBDA last :
          IF ~includes(last, ".") THEN ""
          ELSE IF IsIndexName(last) THEN ""
          ELSE "https://www.sec.gov/ix?doc=" \o parsed.pathname))))

(***************************************************************************)
(* The URL fields and identifiers a record can carry, and the three URL    *)
(* functions computed once for each of them                                *)
(***************************************************************************)

UrlInputs ==
  { "",
    "not a url",
    "javascript:alert(1)",
    "https://www.sec.gov/Archives/edgar/data/1/2/x.htm",
    " HTTPS://WWW.SEC.GOV/Archives/edgar/data/1/2/y.htm ",
    "https://www.sec.gov/ix?doc=/Archives/edgar/data/1/2/x.htm",
    "https://www.sec.gov/Archives/edgar/data/1/2/index.html",
    "https://www.sec.gov/Archives/edgar/data/1/2/",
    "https://www.sec.gov/cgi-bin/browse-edgar",
    "https://sec.gov.evil.example/Archives/x.htm",
    "https://evilsec.gov/Archives/x.htm" }

CikInputs == {"", "0001234567"}

AccessionInputs == {"", "0001234567-24-000123"}

CanonTable ==
  [u \in UrlInputs |-> [c \in CikInputs |-> [n \in AccessionInputs |->
     canonicalizeSecUrl(u, [cik |-> c, accession_number |-> n])]]]

IndexTable == [c \in CikInputs |-> [n \in AccessionInputs |-> buildEdgarIndexUrl(c, n)]]

\* every string a function of the resolver is applied to
ResolverUrls ==
  {"#"} \cup UrlInputs
        \cup {CanonTable[u][c][n] : u \in UrlInputs, c \in CikInputs, n \in AccessionInputs}
        \cup {IndexTable[c][n] : c \in CikInputs, n \in AccessionInputs}

UsableTable == [u \in ResolverUrls |-> isUsableSecFilingUrl(u)]

ViewerTable == [u \in ResolverUrls |-> toIxViewerUrl(u)]

Canonical(url, a) == CanonTable[url][a.cik][a.accession_number]

IndexUrl(a) == IndexTable[a.cik][a.accession_number]

Usable(url) == UsableTable[url]

Viewer(url) == ViewerTable[url]

\* the three candidates of a record, in the order resolveLinks tries them
Candidates(a) ==
  << Canonical(a.primary_document_url, a),
     Canonical(a.sec_filing_url, a),
     Canonical(a.sec_index_url, a) >>

\* candidates.find(isUsable) || buildEdgarIndexUrl(...) || "#"
BestLink(a) ==
  Const(Candidates(a), LAMBDA candidates :
  Const({i \in 1..3 : Usable(candidates[i])}, LAMBDA found :
  Const(IndexUrl(a), LAMBDA fallback :
    IF found # {} THEN candidates[CHOOSE i \in found : \A j \in found : i <= j]
    ELSE IF fallback # "" THEN fallback
    ELSE "#")))

\* the second link shown whenever the primary document is usable
SecondaryLinkAlways(primary, shown) == primary

\* primary && primary !== (viewer || best) ? primary : ""
SecondaryLink(primary, shown) == IF primary # "" /\ primary # shown THEN primary ELSE ""

resolveLinks(a) ==
  Const(BestLink(a), LAMBDA best :
  Const(Canonical(a.primary_document_url, a), LAMBDA primaryCandidate :
  Const(IF Usable(primaryCandidate) THEN primaryCandidate ELSE "", LAMBDA primary :
  Const(Viewer(best), LAMBDA viewer :
  Const(IF viewer # "" THEN viewer ELSE best, LAMBDA shown :
    [secLink |-> shown, primaryLink |-> SecondaryLink(primary, shown)])))))

(***************************************************************************)
(* The link resolver applied to records                                    *)
(***************************************************************************)

UrlFields == {"primary_document_url", "sec_filing_url", "sec_index_url"}

NoCheck == [field |-> "", url |-> "", canonical |-> "", usable |-> FALSE, viewer |-> ""]

NoLinks == [secLink |-> "", primaryLink |-> ""]

\* one of the URL fields of the record through the three URL functions
CheckField(f) ==
  /\ checked = NoCheck
  /\ checked' = [field |-> f, url |-> alert[f],
                 canonical |-> Canonical(alert[f], alert),
                 usable |-> Usable(alert[f]),
                 viewer |-> Viewer(alert[f])]
  /\ UNCHANGED <<alert, links, dashVars>>

\* renderAlerts resolves the links of the record's card
RenderCard ==
  /\ links = NoLinks
  /\ links' = resolveLinks(alert)
  /\ UNCHANGED <<alert, checked, dashVars>>

(***************************************************************************)
(* JSON values and the responses of fetch                                  *)
(***************************************************************************)

Null == [t |-> "null"]

Obj(fields) == [t |-> "obj", v |-> fields]

IsNull(x) == x.t = "null"

\* o.f of an object: the field, or the default standing for undefined
Get(o, f, default) == IF f \in DOMAIN o.v THEN o.v[f] ELSE default

\* a response: net is FALSE when fetch itself rejects, status is the HTTP
\* status, text the body as text, parsed whether the body is JSON, val its value
Response(net, status, text, parsed, val) ==
  [net |-> net, status |-> status, text |-> text, parsed |-> parsed, val |-> val]

JsonResponse(val) == Response(TRUE, 200, "", TRUE, val)

EmptyResponse == Response(TRUE, 200, "", FALSE, Null)

ServerError == Response(TRUE, 500, "", FALSE, Null)

NetworkError == Response(FALSE, 0, "", FALSE, Null)

\* res.ok
ResOk(res) == res.status >= 200 /\ res.status <= 299

jsonFetch(res) ==
  IF ~res.net THEN [ok |-> FALSE, val |-> Null, message |-> "Failed to fetch"]
  ELSE IF ~ResOk(res)
    THEN [ok |-> FALSE, val |-> Null,
          message |-> IF res.text # "" THEN res.text
                      ELSE "Request failed: " \o ToString(res.status)]
  ELSE IF ~res.parsed
    THEN [ok |-> FALSE, val |-> Null, message |-> "Unexpected end of JSON input"]
  ELSE [ok |-> TRUE, val |-> res.val, message |-> ""]

\* the two modes taken the wrong way round
detectModeSwapped(res) == IF jsonFetch(res).ok THEN "static" ELSE "api"

detectMode(res) == IF jsonFetch(res).ok THEN "api" ELSE "static"

\* the status read sent to the live endpoint in both modes
fetchStatusUrlLive(m) == "/api/status"

fetchStatusUrl(m) == IF m = "api" THEN "/api/status" ELSE "./data/status.json"

fetchAlertsUrl(m) == IF m = "api" THEN "/api/alerts" ELSE "./data/alerts.json"

\* Array.isArray(alerts) ? alerts : []
fetchAlertsValue(val) == IF val.t = "arr" THEN val.v ELSE <<>>

controlUrl(op) == IF op = "start" THEN "/api/start" ELSE "/api/stop"

LiveEndpoints == {"/api/start", "/api/stop", "/api/status", "/api/alerts"}

SnapshotResources == {"./data/status.json", "./data/alerts.json"}

Urls == {"/api/health"} \cup LiveEndpoints \cup SnapshotResources

(***************************************************************************)
(* Formatting, metrics, the status line, filter and sort                   *)
(***************************************************************************)

Pad3(n) ==
  IF n < 10 THEN "00" \o ToString(n) ELSE IF n < 100 THEN "0" \o ToString(n) ELSE ToString(n)

\* Number(value || 0).toLocaleString() of a count, in the en-US locale
RECURSIVE fmtNumber(_)
fmtNumber(n) ==
  IF n < 1000 THEN ToString(n) ELSE fmtNumber(n \div 1000) \o "," \o Pad3(n % 1000)

DigitVal(c) == IndexOf(DigitChars, c, 1) - 1

TwoDigits(s, i) == 10 * DigitVal(Ch(s, i)) + DigitVal(Ch(s, i + 1))

\* "YYYY-MM-DDTHH:MM:SS", which new Date reads as local time
IsLocalDateTime(s) ==
  /\ Len(s) = 19
  /\ \A i \in 1..19 : IF i \in {5, 8} THEN Ch(s, i) = "-"
                       ELSE IF i = 11 THEN Ch(s, i) = "T"
                       ELSE IF i \in {14, 17} THEN Ch(s, i) = ":"
                       ELSE IsDigit(Ch(s, i))
  /\ TwoDigits(s, 6) \in 1..12 /\ TwoDigits(s, 9) \in 1..28
  /\ TwoDigits(s, 12) < 24 /\ TwoDigits(s, 15) < 60 /\ TwoDigits(s, 18) < 60

\* fmtDate: "n/a" for a missing or unreadable timestamp, else
\* Date.prototype.toLocaleString in the en-US locale
fmtDate(value) ==
  IF value = "" \/ ~IsLocalDateTime(value) THEN "n/a"
  ELSE LET hour == TwoDigits(value, 12)
           h12  == IF hour % 12 = 0 THEN 12 ELSE hour % 12
       IN ToString(TwoDigits(value, 6)) \o "/" \o ToString(TwoDigits(value, 9)) \o "/"
          \o SubSeq(value, 1, 4) \o ", " \o ToString(h12) \o SubSeq(value, 14, 19)
          \o (IF hour < 12 THEN " AM" ELSE " PM")

Count(alerts, P(_)) == Cardinality({i \in 1..Len(alerts) : P(alerts[i])})

IsNullAlert(a) == "null" \in DOMAIN a

RegularForms == {"485APOS", "485BPOS"}

\* the four counts as updateMetrics writes them; it throws on a null record
\* before it writes any of them
updateMetrics(alerts) ==
  IF \E i \in 1..Len(alerts) : IsNullAlert(alerts[i])
  THEN [threw |-> TRUE, message |-> "Cannot read properties of null (reading 'is_crypto')",
        shown |-> [total |-> "", crypto |-> "", regular |-> "", sent |-> ""]]
  ELSE [threw |-> FALSE, message |-> "",
        shown |-> [total   |-> fmtNumber(Len(alerts)),
                   crypto  |-> fmtNumber(Count(alerts, LAMBDA a : a.is_crypto)),
                   regular |-> fmtNumber(Count(alerts,
                                 LAMBDA a : toUpperCase(a.form_type) \in RegularForms)),
                   sent    |-> fmtNumber(Count(alerts, LAMBDA a : a.email_sent))]]

WithError(summary, status) ==
  IF Get(status, "last_error", "") # ""
  THEN summary \o " | error=" \o Get(status, "last_error", "") ELSE summary

updateStatusLine(status, m) ==
  IF IsNull(status)
  THEN [threw |-> TRUE,
        message |-> "Cannot read properties of null (reading '"
                    \o (IF m = "api" THEN "running" ELSE "fetched_entries") \o "')",
        text |-> ""]
  ELSE IF m = "api"
  THEN [threw |-> FALSE, message |-> "",
        text |-> WithError(
          "stream=" \o (IF Get(status, "running", FALSE) THEN "running" ELSE "stopped")
          \o " connection="
          \o (IF Get(status, "connected", FALSE) THEN "connected" ELSE "disconnected")
          \o " processed=" \o fmtNumber(Get(status, "processed_count", 0))
          \o " alerted=" \o fmtNumber(Get(status, "alerted_count", 0))
          \o " last_event=" \o fmtDate(Get(status, "last_event_at", "")), status)]
  ELSE [threw |-> FALSE, message |-> "",
        text |-> WithError(
          "scheduler=every_10m fetched=" \o fmtNumber(Get(status, "fetched_entries", 0))
          \o " feed=" \o fmtNumber(Get(status, "feed_entries", 0))
          \o " backfill=" \o fmtNumber(Get(status, "backfill_entries", 0))
          \o " backfill_days=" \o fmtNumber(Get(status, "backfill_days", 0))
          \o " repaired_links=" \o fmtNumber(Get(status, "repaired_links", 0))
          \o " refreshed_synopsis=" \o fmtNumber(Get(status, "refreshed_synopsis", 0))
          \o " new_alerts=" \o fmtNumber(Get(status, "new_alerts", 0))
          \o " total_alerts=" \o fmtNumber(Get(status, "total_alerts", 0))
          \o " last_run=" \o fmtDate(Get(status, "last_run", "")), status)]

\* new Date(a.created_at || a.updated || 0).getTime(), the timestamps being numbers
TimeOf(a) == IF a.created_at # 0 THEN a.created_at ELSE a.updated

\* the position of x in a list sorted by descending time: after its equals
RECURSIVE InsertByTime(_, _)
InsertByTime(x, sorted) ==
  IF sorted = <<>> THEN <<x>>
  ELSE IF TimeOf(Head(sorted)) >= TimeOf(x)
       THEN <<Head(sorted)>> \o InsertByTime(x, Tail(sorted))
       ELSE <<x>> \o sorted

RECURSIVE SortByTimeDesc(_)
SortByTimeDesc(list) ==
  IF list = <<>> THEN <<>>
  ELSE InsertByTime(list[Len(list)], SortByTimeDesc(SubSeq(list, 1, Len(list) - 1)))

Haystack(a) ==
  toLowerCase(a.company_name \o " " \o a.cik \o " " \o a.accession_number \o " "
              \o a.synopsis \o " " \o a.form_type)

Matches(a, filter, q) ==
  /\ filter = "ALL" \/ toUpperCase(a.form_type) = filter
  /\ q = "" \/ includes(Haystack(a), q)

\* filterAlerts: it throws on a null record
filterAlerts(alerts, filter, rawQuery) ==
  IF \E i \in 1..Len(alerts) : IsNullAlert(alerts[i])
  THEN [threw |-> TRUE, list |-> <<>>]
  ELSE [threw |-> FALSE,
        list |-> SortByTimeDesc(
                   SelectSeq(alerts, LAMBDA a : Matches(a, filter, toLowerCase(trim(rawQuery)))))]

(***************************************************************************)
(* What the two data sources can answer                                    *)
(***************************************************************************)

LiveRunning ==
  Obj([running |-> TRUE, connected |-> TRUE, processed_count |-> 1200,
       alerted_count |-> 3, last_event_at |-> "2024-01-02T15:04:05", last_error |-> ""])

PolledOnce ==
  Obj([fetched_entries |-> 40, feed_entries |-> 40, backfill_entries |-> 0,
       backfill_days |-> 0, repaired_links |-> 1, refreshed_synopsis |-> 0,
       new_alerts |-> 2, total_alerts |-> 2, last_run |-> "2024-01-02T03:10:00",
       last_error |-> "feed timeout"])

StatusValues(m) ==
  IF m = "api" THEN {Null, LiveRunning} ELSE {Null, PolledOnce}

Filing(name, form, crypto, sent, created, updated) ==
  [company_name |-> name, cik |-> "7", accession_number |-> "7-24-1",
   synopsis |-> "", form_type |-> form, is_crypto |-> crypto, email_sent |-> sent,
   created_at |-> created, updated |-> updated]

BtcTrust == Filing("BTC Trust", "S-1", TRUE, TRUE, 3, 0)

AcmeFund == Filing("Acme Fund", "485apos", FALSE, FALSE, 2, 0)

CoreFund == Filing("Core Fund", "485BPOS", FALSE, TRUE, 0, 3)

NullAlert == [null |-> TRUE]

Arr(list) == [t |-> "arr", v |-> list]

AlertValues ==
  { Obj([detail |-> "not a list"]),
    Arr(<<AcmeFund, BtcTrust, CoreFund>>),
    Arr(<<BtcTrust, NullAlert>>) }

FailedResponses == {ServerError}

StatusResponses(m) == {JsonResponse(v) : v \in StatusValues(m)} \cup FailedResponses

AlertsResponses == {JsonResponse(v) : v \in AlertValues} \cup FailedResponses

ProbeResponses == {JsonResponse(Obj([status |-> "ok"])), EmptyResponse, ServerError, NetworkError}

ControlResponses == {JsonResponse(Obj([status |-> "ok"])), EmptyResponse, ServerError}

FormFilters == {"ALL", "485APOS"}

Queries == {"", " BTC"}

(***************************************************************************)
(* The page functions over the values above, each evaluated once           *)
(***************************************************************************)

Modes == {"api", "static"}

AlertLists == {<<>>} \cup {fetchAlertsValue(v) : v \in AlertValues}

StatusLineTable ==
  [m \in Modes |-> [st \in StatusValues(m) |-> updateStatusLine(st, m)]]

MetricsTable == [al \in AlertLists |-> updateMetrics(al)]

FilterTable ==
  [al \in AlertLists |-> [f \in FormFilters |-> [q \in Queries |-> filterAlerts(al, f, q)]]]

(***************************************************************************)
(* The refresh loop                                                        *)
(***************************************************************************)

\* the operations of a run: the calls of refreshAll (init's own, the timer's,
\* the refresh button's, those after a start or stop) and the start and stop
\* clicks that led to none
MaxOps == 2

NewRefresh ==
  [status |-> "pending", alerts |-> "pending", statusVal |-> Null, alertsVal |-> <<>>,
   state |-> "waiting", wrote |-> {}]

OpsStarted ==
  Len(refreshes) + Cardinality({c \in 1..Len(controls) : controls[c].state # "refreshed"})

CanStart == OpsStarted < MaxOps

Bump(count, urls) == [u \in Urls |-> IF u \in urls THEN count[u] + 1 ELSE count[u]]

\* refreshAll up to its await: both reads are sent
ReadUrls(m) == {fetchStatusUrl(m), fetchAlertsUrl(m)}

\* await Promise.all([fetchStatus(), fetchAlerts()])
PromiseAll(rec) ==
  IF rec.status = "err" \/ rec.alerts = "err" THEN "rejected"
  ELSE IF rec.status = "ok" /\ rec.alerts = "ok" THEN "fulfilled"
  ELSE "pending"

\* each cache field assigned as soon as its own read is in
CacheWritesEager(r, rec) == {k \in {"status", "alerts"} : rec[k] = "ok"}

\* the cache assigned by the latest started refresh alone
CacheWritesLatestOnly(r, rec) ==
  IF PromiseAll(rec) = "fulfilled" /\ r = Len(refreshes) THEN {"status", "alerts"} ELSE {}

\* the cache fields refresh r assigns once its reads stand as in rec
CacheWrites(r, rec) ==
  IF PromiseAll(rec) = "fulfilled" THEN {"status", "alerts"} ELSE {}

\* applyFiltersAndRender over the cache: an exception of filterAlerts leaves
\* the page as it is
applyFiltersAndRender(alerts, filter, q) ==
  LET filtered == FilterTable[alerts][filter][q]
  IN IF filtered.threw THEN [count |-> visibleCount, cards |-> rendered]
     ELSE [count |-> fmtNumber(Len(filtered.list)), cards |-> filtered.list]

FailureLine(message) == "Dashboard refresh failed: " \o message

\* refreshAll after its await, the reads having given status st and records
\* al: the page it leaves and whether the catch block ran
RefreshPage(st, al) ==
  LET line  == StatusLineTable[mode][st]
      shown == MetricsTable[al]
      page  == applyFiltersAndRender(al, formFilter, query)
  IN IF line.threw
     THEN [failed |-> TRUE, line |-> FailureLine(line.message), shown |-> metrics,
           count |-> visibleCount, cards |-> rendered]
     ELSE IF shown.threw
     THEN [failed |-> TRUE, line |-> FailureLine(shown.message), shown |-> metrics,
           count |-> visibleCount, cards |-> rendered]
     ELSE [failed |-> FALSE, line |-> line.text, shown |-> shown.shown,
           count |-> page.count, cards |-> page.cards]

\* the page as the script leaves it once init() has sent the health probe
PageLoaded ==
  /\ mode = "api"
  /\ cachedStatus = Null
  /\ allAlerts = <<>>
  /\ statusLine = ""
  /\ metrics = [total |-> "", crypto |-> "", regular |-> "", sent |-> ""]
  /\ formFilter = "ALL"
  /\ query = ""
  /\ visibleCount = ""
  /\ rendered = <<>>
  /\ pc = "probing"
  /\ probe = "pending"
  /\ refreshes = <<>>
  /\ controls = <<>>
  /\ issued = [u \in Urls |-> IF u = "/api/health" THEN 1 ELSE 0]
  /\ writer = [status |-> 0, alerts |-> 0]

Init ==
  /\ alert = [primary_document_url |-> "", sec_filing_url |-> "", sec_index_url |-> "",
              cik |-> "", accession_number |-> ""]
  /\ checked = NoCheck
  /\ links = NoLinks
  /\ PageLoaded

\* refreshAll is called: its two reads go out
StartRefresh(m) ==
  /\ refreshes' = Append(refreshes, NewRefresh)
  /\ issued' = Bump(issued, ReadUrls(m))

\* init() after await detectMode(): the mode is set, the events are bound and
\* the first refresh starts
ProbeResolve(res) ==
  /\ pc = "probing"
  /\ mode' = detectMode(res)
  /\ probe' = IF jsonFetch(res).ok THEN "ok" ELSE "failed"
  /\ pc' = "firstRefresh"
  /\ StartRefresh(mode')
  /\ UNCHANGED <<linkVars, cachedStatus, allAlerts, statusLine, metrics, formFilter,
                 query, visibleCount, rendered, controls, writer>>

\* setInterval(refreshAll, interval) fires
Tick ==
  /\ pc = "running"
  /\ CanStart
  /\ StartRefresh(mode)
  /\ UNCHANGED <<linkVars, mode, cachedStatus, allAlerts, statusLine, metrics, formFilter,
                 query, visibleCount, rendered, pc, probe, controls, writer>>

\* a click on refreshBtn
ManualRefresh ==
  /\ pc # "probing"
  /\ CanStart
  /\ StartRefresh(mode)
  /\ UNCHANGED <<linkVars, mode, cachedStatus, allAlerts, statusLine, metrics, formFilter,
                 query, visibleCount, rendered, pc, probe, controls, writer>>

\* a response to one of the two reads of refresh r arrives while refreshAll
\* awaits them; one that arrives after the join was rejected changes nothing
\* and is not followed
ReadResolve(r, k, res) ==
  /\ refreshes[r].state = "waiting"
  /\ refreshes[r][k] = "pending"
  /\ LET out  == jsonFetch(res)
         rec  == [refreshes[r] EXCEPT
                    ![k] = IF out.ok THEN "ok" ELSE "err",
                    !.statusVal = IF k = "status" /\ out.ok THEN out.val ELSE @,
                    !.alertsVal = IF k = "alerts" /\ out.ok THEN fetchAlertsValue(out.val) ELSE @]
         all  == PromiseAll(rec)
         W    == CacheWrites(r, rec)
         st   == IF "status" \in W THEN rec.statusVal ELSE cachedStatus
         al   == IF "alerts" \in W THEN rec.alertsVal ELSE allAlerts
         page == RefreshPage(st, al)
         done == all \in {"fulfilled", "rejected"}
         end  == IF all = "rejected" \/ (all = "fulfilled" /\ page.failed) THEN "failed"
                 ELSE IF all = "fulfilled" THEN "ok" ELSE "waiting"
     IN /\ cachedStatus' = st
        /\ allAlerts' = al
        /\ writer' = [f \in {"status", "alerts"} |-> IF f \in W THEN r ELSE writer[f]]
        /\ refreshes' = [refreshes EXCEPT ![r] =
                           [rec EXCEPT !.state = end,
                                       !.wrote = @ \cup W,
                                       !.statusVal = IF done THEN Null ELSE @,
                                       !.alertsVal = IF done THEN <<>> ELSE @]]
        /\ statusLine' = IF all = "rejected" THEN FailureLine(out.message)
                         ELSE IF all = "fulfilled" THEN page.line ELSE statusLine
        /\ metrics' = IF all = "fulfilled" THEN page.shown ELSE metrics
        /\ visibleCount' = IF all = "fulfilled" THEN page.count ELSE visibleCount
        /\ rendered' = IF all = "fulfilled" THEN page.cards ELSE rendered
        \* init() goes on to setInterval once its await refreshAll() returns
        /\ pc' = IF done /\ r = 1 /\ pc = "firstRefresh" THEN "running" ELSE pc
  /\ UNCHANGED <<linkVars, mode, formFilter, query, probe, controls, issued>>

\* the user picks a form filter; the change handler runs once it is bound
SetFormFilter(f) ==
  /\ f # formFilter
  /\ formFilter' = f
  /\ LET page == applyFiltersAndRender(allAlerts, f, query)
     IN /\ visibleCount' = IF pc = "probing" THEN visibleCount ELSE page.count
        /\ rendered' = IF pc = "probing" THEN rendered ELSE page.cards
  /\ UNCHANGED <<linkVars, mode, cachedStatus, allAlerts, statusLine, metrics, query, pc,
                 probe, refreshes, controls, issued, writer>>

\* the user edits the search box; the input handler runs once it is bound
SetQuery(q) ==
  /\ q # query
  /\ query' = q
  /\ LET page == applyFiltersAndRender(allAlerts, formFilter, q)
     IN /\ visibleCount' = IF pc = "probing" THEN visibleCount ELSE page.count
        /\ rendered' = IF pc = "probing" THEN rendered ELSE page.cards
  /\ UNCHANGED <<linkVars, mode, cachedStatus, allAlerts, statusLine, metrics, formFilter,
                 pc, probe, refreshes, controls, issued, writer>>

\* startListener / stopListener up to the await of the POST
ControlClick(op) ==
  /\ pc # "probing"
  /\ CanStart
  /\ IF mode # "api"
     THEN /\ controls' = Append(controls, [op |-> op, state |-> "noop", http |-> 0])
          /\ UNCHANGED issued
     ELSE /\ controls' = Append(controls, [op |-> op, state |-> "pending", http |-> 0])
          /\ issued' = Bump(issued, {controlUrl(op)})
  /\ UNCHANGED <<linkVars, mode, cachedStatus, allAlerts, statusLine, metrics, formFilter,
                 query, visibleCount, rendered, pc, probe, refreshes, writer>>

\* the POST of control c is answered: refreshAll is called, or the error
\* leaves the handler
ControlResolve(c, res) ==
  /\ controls[c].state = "pending"
  /\ IF jsonFetch(res).ok
     THEN /\ StartRefresh(mode)
          /\ controls' = [controls EXCEPT ![c] = [@ EXCEPT !.state = "refreshed",
                                                           !.http = res.status]]
     ELSE /\ controls' = [controls EXCEPT ![c] = [@ EXCEPT !.state = "rejected",
                                                           !.http = res.status]]
          /\ UNCHANGED <<refreshes, issued>>
  /\ UNCHANGED <<linkVars, mode, cachedStatus, allAlerts, statusLine, metrics, formFilter,
                 query, visibleCount, rendered, pc, probe, writer>>

Next ==
  \/ \E res \in ProbeResponses : ProbeResolve(res)
  \/ Tick
  \/ ManualRefresh
  \/ \E r \in 1..Len(refreshes) :
       \/ \E res \in StatusResponses(mode) : ReadResolve(r, "status", res)
       \/ \E res \in AlertsResponses : ReadResolve(r, "alerts", res)
  \/ \E f \in FormFilters : SetFormFilter(f)
  \/ \E q \in Queries : SetQuery(q)
  \/ \E op \in {"start", "stop"} : ControlClick(op)
  \/ \E c \in 1..Len(controls), res \in ControlResponses : ControlResolve(c, res)

Spec == Init /\ [][Next]_vars

\* the runs of timer ticks, refresh clicks and start and stop clicks alone, the
\* filter and the search box left as the page loads them
NextOps ==
  \/ \E res \in ProbeResponses : ProbeResolve(res)
  \/ Tick
  \/ ManualRefresh
  \/ \E r \in 1..Len(refreshes) :
       \/ \E res \in StatusResponses(mode) : ReadResolve(r, "status", res)
       \/ \E res \in AlertsResponses : ReadResolve(r, "alerts", res)
  \/ \E op \in {"start", "stop"} : ControlClick(op)
  \/ \E c \in 1..Len(controls), res \in ControlResponses : ControlResolve(c, res)

SpecOps == Init /\ [][NextOps]_vars

(***************************************************************************)
(* The link resolver on its own: every record of the input sets            *)
(***************************************************************************)

AlertInputs ==
  [primary_document_url : UrlInputs, sec_filing_url : UrlInputs, sec_index_url : UrlInputs,
   cik : CikInputs, accession_number : AccessionInputs]

InitLinks ==
  /\ alert \in AlertInputs
  /\ checked = NoCheck
  /\ links = NoLinks
  /\ PageLoaded

NextLinks ==
  \/ \E f \in UrlFields : CheckField(f)
  \/ RenderCard

SpecLinks == InitLinks /\ [][NextLinks]_vars

(***************************************************************************)
(* Properties of the refresh loop                                          *)
(***************************************************************************)

\* C1: a refresh that ends with the "Dashboard refresh failed: ..." line
\* leaves cachedStatus and allAlerts as they were, whatever made it fail.
C1_FailureLeavesCacheUntouched ==
  [][\A r \in 1..Len(refreshes) :
       (refreshes[r].state = "waiting" /\ refreshes'[r].state = "failed")
         => (cachedStatus' = cachedStatus /\ allAlerts' = allAlerts)]_vars

\* the four counts over a record list, a null record counting for nothing
CountsOver(alerts) ==
  [total   |-> fmtNumber(Len(alerts)),
   crypto  |-> fmtNumber(Count(alerts, LAMBDA a : ~IsNullAlert(a) /\ a.is_crypto)),
   regular |-> fmtNumber(Count(alerts,
                 LAMBDA a : ~IsNullAlert(a) /\ toUpperCase(a.form_type) \in RegularForms)),
   sent    |-> fmtNumber(Count(alerts, LAMBDA a : ~IsNullAlert(a) /\ a.email_sent))]

CountsTable == [al \in AlertLists |-> CountsOver(al)]

\* C2: once a refresh has completed, the metrics shown are the counts over
\* the whole record list held in allAlerts, whatever the filter and the
\* search box say.
C2_MetricsOverCache ==
  (\E r \in 1..Len(refreshes) : refreshes[r].state = "ok") => metrics = CountsTable[allAlerts]

\* C3: in live mode a start or stop request the server answers with a 2xx
\* status, with or without a body, is followed by a refresh.
C3_ControlThenRefresh ==
  \A c \in 1..Len(controls) :
    (controls[c].state \in {"refreshed", "rejected"} /\ controls[c].http \in 200..299)
      => controls[c].state = "refreshed"

\* C4: both cache fields were assigned by the same refresh, a refresh
\* assigns both fields or none, and one with a failed read assigns none.
C4_AtomicCache ==
  /\ writer.status = writer.alerts
  /\ \A r \in 1..Len(refreshes) :
       /\ refreshes[r].wrote \in {{}, {"status", "alerts"}}
       /\ (refreshes[r].status = "err" \/ refreshes[r].alerts = "err") => refreshes[r].wrote = {}
       /\ refreshes[r].state = "waiting" => refreshes[r].wrote = {}

\* a refresh with one read in and the other failed assigned nothing, and the
\* cache holds what another refresh assigned
C4_Witness ==
  \E r \in 1..Len(refreshes) :
    /\ refreshes[r].status = "ok"
    /\ refreshes[r].alerts = "err"
    /\ refreshes[r].wrote = {}
    /\ writer.status \notin {0, r}

\* C5: in static mode nothing is sent to the live endpoints, start and stop
\* send nothing and start no refresh, and every refresh reads the two
\* snapshot resources; in live mode every refresh reads the live endpoints
\* and nothing reads the snapshots.
C5_SourcesByMode ==
  /\ mode = "static" =>
       /\ \A u \in LiveEndpoints : issued[u] = 0
       /\ \A u \in SnapshotResources : issued[u] = Len(refreshes)
       /\ \A c \in 1..Len(controls) : controls[c].state = "noop"
  /\ mode = "api" =>
       /\ \A u \in SnapshotResources : issued[u] = 0
       /\ \A u \in {"/api/status", "/api/alerts"} : issued[u] = Len(refreshes)
       /\ \A c \in 1..Len(controls) : controls[c].state # "noop"

\* static mode: a start or stop click did nothing and a refresh read the
\* snapshots to the end
C5_Witness ==
  /\ mode = "static"
  /\ Len(controls) > 0
  /\ Len(refreshes) > 0
  /\ refreshes[1].state = "ok"
  /\ issued["./data/status.json"] > 0

\* C6: the health probe is sent once; nothing else is sent, and no refresh
\* or control starts, before it is answered; its success gives the live mode
\* and its failure the static mode; after the answer the mode never changes.
C6_ModeChosenOnce ==
  /\ [](/\ issued["/api/health"] = 1
        /\ probe = "pending" =>
             /\ refreshes = <<>>
             /\ controls = <<>>
             /\ \A u \in Urls \ {"/api/health"} : issued[u] = 0
        /\ probe = "ok" => mode = "api"
        /\ probe = "failed" => mode = "static")
  /\ [][probe # "pending" => mode' = mode]_vars

\* the probe failed, the page is in static mode and a later refresh failed
C6_Witness ==
  /\ probe = "failed"
  /\ mode = "static"
  /\ \E r \in 1..Len(refreshes) : refreshes[r].state = "failed"
  /\ \E r \in 1..Len(refreshes) : refreshes[r].state = "ok"

\* C10: a refresh whose two reads succeed assigns the cache when it
\* completes, whichever refreshes started before or after it and whatever
\* they assigned; starting a refresh leaves those in flight as they are.
C10_LastCompletedWins ==
  [][/\ \A r \in 1..Len(refreshes) :
          (refreshes[r].state = "waiting" /\ refreshes'[r].state = "ok")
            => /\ writer' = [status |-> r, alerts |-> r]
               /\ refreshes[r].status = "ok" => cachedStatus' = refreshes[r].statusVal
               /\ refreshes[r].alerts = "ok" => allAlerts' = refreshes[r].alertsVal
     /\ Len(refreshes') > Len(refreshes)
          => SubSeq(refreshes', 1, Len(refreshes)) = refreshes]_vars

\* the first refresh completed after the second had: the cache holds the
\* data of the refresh that started first
C10_Witness ==
  /\ Len(refreshes) >= 2
  /\ refreshes[1].state = "ok"
  /\ refreshes[2].state = "ok"
  /\ writer = [status |-> 1, alerts |-> 1]

(***************************************************************************)
(* Properties of the link resolver                                         *)
(***************************************************************************)

\* a host that is sec.gov or a subdomain of it
OnSecGov(hostname) == hostname = "sec.gov" \/ endsWith(hostname, ".sec.gov")

\* the URLs that parse and whose host is neither
ForeignUrls ==
  {u \in ResolverUrls \cup {ViewerTable[v] : v \in ResolverUrls} :
     Const(URL(trim(u)), LAMBDA parsed : parsed.ok /\ ~OnSecGov(parsed.hostname))}

\* C7: a URL whose host is neither sec.gov nor a subdomain of it is rejected
\* by canonicalizeSecUrl, isUsableSecFilingUrl and toIxViewerUrl, and
\* resolveLinks returns no such URL.
C7_DomainRestriction ==
  /\ checked.url \in ForeignUrls =>
       checked.canonical = "" /\ ~checked.usable /\ checked.viewer = ""
  /\ links.secLink \notin ForeignUrls
  /\ links.primaryLink \notin ForeignUrls

\* C8: with no candidate left by canonicalizeSecUrl, secLink is the
\* synthesized index URL when cik and accession number give one, and "#"
\* when both are empty.
C8_FallbackCompleteness ==
  (links # NoLinks /\ \A f \in UrlFields : Canonical(alert[f], alert) = "") =>
    /\ IndexUrl(alert) # "" => links.secLink = IndexUrl(alert)
    /\ (alert.cik = "" /\ alert.accession_number = "") => links.secLink = "#"

\* C9: secLink is never empty; primaryLink is empty or the canonicalized
\* primary document URL, usable and different from secLink.
C9_ResolvedLinks ==
  links # NoLinks =>
    /\ links.secLink # ""
    /\ \/ links.primaryLink = ""
       \/ /\ links.primaryLink = canonicalizeSecUrl(alert.primary_document_url, alert)
          /\ isUsableSecFilingUrl(links.primaryLink)
          /\ links.primaryLink # links.secLink

\* a card with both links: the viewer link and, next to it, the primary
\* document itself
C9_Witness ==
  /\ links # NoLinks
  /\ links.primaryLink # ""
  /\ links.secLink \notin {"", "#"}

====
